---- MODULE Spec2Model ----
(***************************************************************************)
(* rl_ball_sym: arena geometry preparation (linear_algebra/mat.rs,         *)
(* simulation/field.rs) and the prediction entry points exercised by       *)
(* benches/benchmarks.rs.                                                  *)
(*                                                                         *)
(* f32 values are modelled in fixed point.  A coordinate is an integer     *)
(* number of 1/CDen units, a matrix entry an integer number of 1/MDen.     *)
(* A product is rounded to the nearest representable value, as an f32      *)
(* product is; sums and products of whole numbers are exact in both.       *)
(***************************************************************************)
EXTENDS Integers, Sequences, FiniteSets, TLC

VARIABLES
    matA, matB, vecV, matC, mphase,          \* mat.rs: operands and result of A.dot(B)
    qp, qe1, qe2, qmesh,                     \* field.rs: arguments and result of quad
    panels, arena, parts, field_mesh,        \* field.rs: an arena builder's inputs and locals
    triangles, bvh,
    game, ball, num_slices, slices, last, pc \* benchmarks.rs: the game and a prediction run

vars == << matA, matB, vecV, matC, mphase, qp, qe1, qe2, qmesh,
           panels, arena, parts, field_mesh, triangles, bvh,
           game, ball, num_slices, slices, last, pc >>

matVars == << matA, matB, vecV, matC, mphase >>
quadVars == << qp, qe1, qe2, qmesh >>
arenaVars == << panels, arena, parts, field_mesh, triangles, bvh >>
ballVars == << game, ball, num_slices, slices, last, pc >>

(***************************************************************************)
(* Bounds of the model.                                                    *)
(***************************************************************************)
MaxEntry == 1
MaxCoord == 1
MaxPanel == 3
MaxSlices == 3

(***************************************************************************)
(* Fixed-point f32.                                                        *)
(***************************************************************************)
CDen == 10
MDen == 1000

\* a / d rounded to the nearest integer, halves away from zero
RDiv(a, d) == IF a >= 0 THEN (2 * a + d) \div (2 * d)
              ELSE -((2 * (-a) + d) \div (2 * d))

\* a literal such as 4096. as a coordinate, and as a matrix entry
U(x) == x * CDen
M(x) == x * MDen

(***************************************************************************)
(* glam::Vec3A                                                             *)
(***************************************************************************)
vec3a(x, y, z) == << x, y, z >>
Vec3A_default == << 0, 0, 0 >>
VAdd(a, b) == << a[1] + b[1], a[2] + b[2], a[3] + b[3] >>
VSub(a, b) == << a[1] - b[1], a[2] - b[2], a[3] - b[3] >>
VScale(k, a) == << k * a[1], k * a[2], k * a[3] >>
VDot(a, b) == a[1] * b[1] + a[2] * b[2] + a[3] * b[3]
VCross(a, b) == << a[2] * b[3] - a[3] * b[2],
                   a[3] * b[1] - a[1] * b[3],
                   a[1] * b[2] - a[2] * b[1] >>

(***************************************************************************)
(* glam::Mat3A: three columns x_axis, y_axis, z_axis.  const_mat3a! takes  *)
(* the three columns, so the arrays written in the source are columns of   *)
(* the glam matrix.                                                        *)
(***************************************************************************)
const_mat3a(c0, c1, c2) == << << M(c0[1]), M(c0[2]), M(c0[3]) >>,
                              << M(c1[1]), M(c1[2]), M(c1[3]) >>,
                              << M(c2[1]), M(c2[2]), M(c2[3]) >> >>

transpose(m) == << << m[1][1], m[2][1], m[3][1] >>,
                   << m[1][2], m[2][2], m[3][2] >>,
                   << m[1][3], m[2][3], m[3][3] >> >>

\* Mat3A * Vec3A: the linear combination of the columns
mul_vec3a(m, v) == << RDiv(m[1][1] * v[1] + m[2][1] * v[2] + m[3][1] * v[3], MDen),
                      RDiv(m[1][2] * v[1] + m[2][2] * v[2] + m[3][2] * v[3], MDen),
                      RDiv(m[1][3] * v[1] + m[2][3] * v[2] + m[3][3] * v[3], MDen) >>

\* Mat3A * Mat3A: column j of the product is lhs * (column j of rhs)
mul_mat3(a, b) == << mul_vec3a(a, b[1]), mul_vec3a(a, b[2]), mul_vec3a(a, b[3]) >>

\* Mat3A::from_diagonal(Vec3::splat(scale)), scale given in 1/MDen
from_diagonal_splat(scale) == << << scale, 0, 0 >>, << 0, scale, 0 >>, << 0, 0, scale >> >>

(***************************************************************************)
(* linear_algebra/mat.rs                                                   *)
(***************************************************************************)
\* dot with the final transpose forgotten, and with glam's product used as is
dot_untransposed(self, other) == mul_mat3(transpose(self), transpose(other))
dot_glam_order(self, other) == mul_mat3(self, other)

dot(self, other) == transpose(mul_mat3(transpose(self), transpose(other)))

TestA == const_mat3a(<< -1, 2, 3 >>, << 4, 5, 6 >>, << 7, 8, 9 >>)
TestB == const_mat3a(<< 9, 8, 7 >>, << 6, -5, 4 >>, << 3, 2, 1 >>)
TestC == const_mat3a(<< 12, -12, 4 >>, << 84, 19, 54 >>, << 138, 34, 90 >>)

(***************************************************************************)
(* linear_algebra/math.rs: dot(matrix, vector), the matrix as written      *)
(* (rows) applied to a column vector.                                      *)
(***************************************************************************)
math_dot(matrix, vector) == mul_vec3a(transpose(matrix), vector)

\* axis_to_rotation(vec3a(0, 0, angle)): the rotation about z, given the
\* cosine and sine of the angle in 1/MDen
axis_to_rotation_z(c, s) == << << c, -s, 0 >>, << s, c, 0 >>, << 0, 0, MDen >> >>

(***************************************************************************)
(* simulation/field.rs: constants and quad                                 *)
(***************************************************************************)
FLIP_X == const_mat3a(<< -1, 0, 0 >>, << 0, 1, 0 >>, << 0, 0, 1 >>)
FLIP_Y == const_mat3a(<< 1, 0, 0 >>, << 0, -1, 0 >>, << 0, 0, 1 >>)

\* the flat vertex buffer of a list of points
Flatten(points) == [k \in 1..(3 * Len(points)) |->
                       points[((k - 1) \div 3) + 1][((k - 1) % 3) + 1]]

\* quad with its indices counted from one, and with the second triangle wound the
\* other way round
quad_one_based(p, e1, e2) ==
    [ids |-> << 1, 2, 4, 2, 3, 4 >>,
     vertices |-> Flatten(<< VAdd(VAdd(p, e1), e2), VAdd(VSub(p, e1), e2),
                             VSub(VSub(p, e1), e2), VSub(VAdd(p, e1), e2) >>)]
quad_rewound(p, e1, e2) ==
    [ids |-> << 0, 1, 3, 1, 3, 2 >>,
     vertices |-> Flatten(<< VAdd(VAdd(p, e1), e2), VAdd(VSub(p, e1), e2),
                             VSub(VSub(p, e1), e2), VSub(VAdd(p, e1), e2) >>)]

quad(p, e1, e2) ==
    [ids |-> << 0, 1, 3, 1, 2, 3 >>,
     vertices |-> Flatten(<< VAdd(VAdd(p, e1), e2), VAdd(VSub(p, e1), e2),
                             VSub(VSub(p, e1), e2), VSub(VAdd(p, e1), e2) >>)]

(***************************************************************************)
(* simulation/mesh.rs: Mesh { ids, vertices }, a flat index buffer (three  *)
(* per triangle, counted from 0) and a flat vertex buffer (three floats    *)
(* per vertex).                                                            *)
(***************************************************************************)
EmptyMesh == [ids |-> << >>, vertices |-> << >>]

VertCount(mesh) == Len(mesh.vertices) \div 3

vertex(mesh, i) == << mesh.vertices[3 * i + 1], mesh.vertices[3 * i + 2],
                      mesh.vertices[3 * i + 3] >>

Points(mesh) == [i \in 1..VertCount(mesh) |-> vertex(mesh, i - 1)]

\* every index refers to a vertex of the buffer
MeshValid(mesh) ==
    /\ Len(mesh.vertices) % 3 = 0
    /\ Len(mesh.ids) % 3 = 0
    /\ \A k \in 1..Len(mesh.ids) : mesh.ids[k] >= 0 /\ mesh.ids[k] < VertCount(mesh)

\* Mesh::transform: every vertex transformed, the index buffer untouched
transform(mesh, a) ==
    [ids |-> mesh.ids,
     vertices |-> Flatten([i \in 1..VertCount(mesh) |-> math_dot(a, vertex(mesh, i - 1))])]

\* Mesh::translate: every vertex offset by p
translate(mesh, p) ==
    [ids |-> mesh.ids,
     vertices |-> Flatten([i \in 1..VertCount(mesh) |-> VAdd(vertex(mesh, i - 1), p)])]

\* Mesh::from(vec![...]): the vertex buffers concatenated, each input's
\* indices shifted by the number of vertices before it
RECURSIVE Mesh_from(_)
Mesh_from(meshes) ==
    IF meshes = << >> THEN EmptyMesh
    ELSE LET head == Mesh_from(SubSeq(meshes, 1, Len(meshes) - 1))
             m == meshes[Len(meshes)]
             id_offset == VertCount(head)
         IN  [ids |-> head.ids \o [k \in 1..Len(m.ids) |-> m.ids[k] + id_offset],
              vertices |-> head.vertices \o m.vertices]

\* Mesh::to_triangles: the index buffer expanded against the vertex buffer
to_triangles(mesh) ==
    [t \in 1..(Len(mesh.ids) \div 3) |->
        << vertex(mesh, mesh.ids[3 * t - 2]), vertex(mesh, mesh.ids[3 * t - 1]),
           vertex(mesh, mesh.ids[3 * t]) >>]

\* the normal a triangle's winding gives: (b - a) x (c - a)
WindingNormal(tri) == VCross(VSub(tri[2], tri[1]), VSub(tri[3], tri[1]))

(***************************************************************************)
(* Values of the variables a specification does not use.                   *)
(***************************************************************************)
None == << >>

MatIdle == matA = None /\ matB = None /\ vecV = None /\ matC = None /\ mphase = "idle"
QuadIdle == qp = None /\ qe1 = None /\ qe2 = None /\ qmesh = None
ArenaIdle == /\ panels = None /\ arena = "idle" /\ parts = None
             /\ field_mesh = None /\ triangles = None /\ bvh = None
BallIdle == /\ game = None /\ ball = None /\ num_slices = 0
            /\ slices = None /\ last = None /\ pc = "idle"

(***************************************************************************)
(* A.dot(B) on pairs of matrices: the test's A, B, the two flips and every *)
(* matrix with a single non-zero whole entry.                              *)
(***************************************************************************)
Entries == (-MaxEntry..MaxEntry) \ {0}

Unit(i, j, k) == [r \in 1..3 |-> [c \in 1..3 |-> IF r = i /\ c = j THEN M(k) ELSE 0]]

MatSet == {TestA, TestB, FLIP_X, FLIP_Y}
              \cup {Unit(i, j, k) : i \in 1..3, j \in 1..3, k \in Entries}

VecSet == {<< U(1), U(2), U(3) >>}
              \cup {<< U(k), 0, 0 >> : k \in Entries}
              \cup {<< 0, U(k), 0 >> : k \in Entries}
              \cup {<< 0, 0, U(k) >> : k \in Entries}

InitMat ==
    /\ matA \in MatSet
    /\ matB \in MatSet
    /\ vecV \in VecSet
    /\ matC = None
    /\ mphase = "init"
    /\ QuadIdle /\ ArenaIdle /\ BallIdle

\* let c = a.dot(b)
Dot ==
    /\ mphase = "init"
    /\ matC' = dot(matA, matB)
    /\ mphase' = "dotted"
    /\ UNCHANGED << matA, matB, vecV >>
    /\ UNCHANGED << quadVars, arenaVars, ballVars >>

NextMat == Dot

SpecMat == InitMat /\ [][NextMat]_vars

\* entry (i, j) of the matrix written as rows r: the i-th array, j-th element
RowByColumn(a, b) ==
    [i \in 1..3 |-> [j \in 1..3 |->
        RDiv(a[i][1] * b[1][j] + a[i][2] * b[2][j] + a[i][3] * b[3][j], MDen)]]

\* C1: written as rows, A.dot(B) is the row-by-column product: entry (i, j)
\* is the sum over k of A[i][k] * B[k][j]; the test's A and B give the test's C.
C1_DotIsRowByColumn ==
    mphase = "dotted" =>
        /\ matC = RowByColumn(matA, matB)
        /\ (matA = TestA /\ matB = TestB) => matC = TestC

C1_Witness ==
    /\ mphase = "dotted" /\ matA = TestA /\ matB = TestB
    /\ matC[1] = << M(12), M(-12), M(4) >>

\* a mesh of one triangle whose corners are the rotations of v
MeshOfVec(v) == [ids |-> << 0, 1, 2 >>,
                 vertices |-> Flatten(<< v, << v[2], v[3], v[1] >>, << v[3], v[1], v[2] >> >>)]

Cube == {<< U(x), U(y), U(z) >> : x \in -MaxCoord..MaxCoord, y \in -MaxCoord..MaxCoord,
                                   z \in -MaxCoord..MaxCoord}

CentreSet == {Vec3A_default, << U(1), U(-2), U(3) >>}

InitQuad ==
    /\ qp \in CentreSet
    /\ qe1 \in Cube
    /\ qe2 \in Cube
    /\ qmesh = None
    /\ MatIdle /\ ArenaIdle /\ BallIdle

\* let mesh = quad(p, e1, e2)
Quad ==
    /\ qmesh = None
    /\ qmesh' = quad(qp, qe1, qe2)
    /\ UNCHANGED << qp, qe1, qe2 >>
    /\ UNCHANGED << matVars, arenaVars, ballVars >>

NextQuad == Quad

SpecQuad == InitQuad /\ [][NextQuad]_vars

\* C8: quad returns the four corners p+e1+e2, p-e1+e2, p-e1-e2, p+e1-e2 and
\* the indices [0,1,3,1,2,3]: two triangles that share the edge 1-3, cover
\* the parallelogram once and both have the winding normal 4 * (e1 x e2).
C8_QuadTwoTrianglesSameWinding ==
    qmesh # None =>
        LET v == Points(qmesh)
            t == to_triangles(qmesh)
            n == VScale(4, VCross(qe1, qe2))
        IN  /\ v = << VAdd(VAdd(qp, qe1), qe2), VAdd(VSub(qp, qe1), qe2),
                      VSub(VSub(qp, qe1), qe2), VSub(VAdd(qp, qe1), qe2) >>
            /\ qmesh.ids = << 0, 1, 3, 1, 2, 3 >>
            /\ Len(t) = 2
            /\ {qmesh.ids[k] : k \in 1..3} \cap {qmesh.ids[k] : k \in 4..6} = {1, 3}
            /\ {qmesh.ids[k] : k \in 1..3} \cup {qmesh.ids[k] : k \in 4..6} = {0, 1, 2, 3}
            /\ VAdd(v[1], v[3]) = VAdd(v[2], v[4])
            /\ WindingNormal(t[1]) = n
            /\ WindingNormal(t[2]) = n
            /\ VAdd(WindingNormal(t[1]), WindingNormal(t[2]))
                   = VScale(2, VCross(VSub(v[2], v[1]), VSub(v[4], v[1])))

C8_Witness ==
    /\ qmesh # None
    /\ VCross(qe1, qe2) # << 0, 0, 0 >>
    /\ qp # Vec3A_default
    /\ WindingNormal(to_triangles(qmesh)[2]) = VScale(4, VCross(qe1, qe2))

(***************************************************************************)
(* simulation/bvh.rs: Bvh::from(&triangles).  A leaf owns one triangle; an *)
(* internal node owns two children and the box that encloses both.  The    *)
(* triangles are split at the median of their centroids along the axis of  *)
(* greatest extent, ties kept in input order.                              *)
(***************************************************************************)
Min2(a, b) == IF a <= b THEN a ELSE b
Max2(a, b) == IF a >= b THEN a ELSE b

BoxOfTri(t) ==
    [min |-> << Min2(t[1][1], Min2(t[2][1], t[3][1])), Min2(t[1][2], Min2(t[2][2], t[3][2])),
                Min2(t[1][3], Min2(t[2][3], t[3][3])) >>,
     max |-> << Max2(t[1][1], Max2(t[2][1], t[3][1])), Max2(t[1][2], Max2(t[2][2], t[3][2])),
                Max2(t[1][3], Max2(t[2][3], t[3][3])) >>]

BoxUnion(a, b) ==
    [min |-> << Min2(a.min[1], b.min[1]), Min2(a.min[2], b.min[2]), Min2(a.min[3], b.min[3]) >>,
     max |-> << Max2(a.max[1], b.max[1]), Max2(a.max[2], b.max[2]), Max2(a.max[3], b.max[3]) >>]

SetMin(S) == CHOOSE m \in S : \A w \in S : m <= w

\* the box of a non-empty list of triangles
BoxOfTris(ts) ==
    LET lo(i) == {Min2(ts[k][1][i], Min2(ts[k][2][i], ts[k][3][i])) : k \in 1..Len(ts)}
        hi(i) == {-Max2(ts[k][1][i], Max2(ts[k][2][i], ts[k][3][i])) : k \in 1..Len(ts)}
    IN  [min |-> << SetMin(lo(1)), SetMin(lo(2)), SetMin(lo(3)) >>,
         max |-> << -SetMin(hi(1)), -SetMin(hi(2)), -SetMin(hi(3)) >>]

\* the axis along which the box is longest, the first of them on a tie
SplitAxis(box) ==
    LET ext == << box.max[1] - box.min[1], box.max[2] - box.min[2], box.max[3] - box.min[3] >>
    IN  IF ext[1] >= ext[2] /\ ext[1] >= ext[3] THEN 1
        ELSE IF ext[2] >= ext[3] THEN 2 ELSE 3

\* three times the centroid's coordinate along the axis
CentroidKey(t, axis) == t[1][axis] + t[2][axis] + t[3][axis]

\* the triangles in the order of their centroids along the axis; a triangle
\* goes behind those of the same centroid that came before it (stable)
SortByCentroid(ts, axis) ==
    LET n == Len(ts)
        key(i) == CentroidKey(ts[i], axis)
        before(i) == Cardinality({j \in 1..n : key(j) < key(i) \/ (key(j) = key(i) /\ j < i)})
        placed == {<< before(i) + 1, i >> : i \in 1..n}
    IN  [k \in 1..n |-> ts[(CHOOSE pr \in placed : pr[1] = k)[2]]]

\* a node that takes the box of its left child alone
BvhNode_left_only(l, r) == [leaf |-> FALSE, box |-> l.box, left |-> l, right |-> r]

BvhNode(l, r) == [leaf |-> FALSE, box |-> BoxUnion(l.box, r.box), left |-> l, right |-> r]

BvhLeaf(t) == [leaf |-> TRUE, box |-> BoxOfTri(t), tri |-> t]

RECURSIVE Bvh_from(_)
Bvh_from(ts) ==
    IF Len(ts) = 1 THEN BvhLeaf(ts[1])
    ELSE LET sorted == SortByCentroid(ts, SplitAxis(BoxOfTris(ts)))
             half == Len(ts) \div 2
         IN  BvhNode(Bvh_from(SubSeq(sorted, 1, half)),
                     Bvh_from(SubSeq(sorted, half + 1, Len(ts))))

BoxContains(outer, inner) ==
    \A i \in 1..3 : outer.min[i] <= inner.min[i] /\ inner.max[i] <= outer.max[i]

BoxContainsPoint(box, v) == \A i \in 1..3 : box.min[i] <= v[i] /\ v[i] <= box.max[i]

(***************************************************************************)
(* simulation/field.rs: the list of meshes each arena builder merges.      *)
(* Literals are f32: 4096.6 is 40966 tenths, 431.664 rounds to 4317 and    *)
(* -207.565 to -2076; scales and rotations are in thousandths.             *)
(***************************************************************************)
\* the soccar list with the last side wall forgotten, and with the goal taken
\* where the corner is mirrored
SoccarParts_wall_forgotten(soccar_corner, soccar_goal, soccar_ramps_0, soccar_ramps_1) ==
    LET floor == quad(Vec3A_default, vec3a(U(4096), 0, 0), vec3a(0, U(5120), 0))
        ceiling == quad(vec3a(0, 0, U(2048)), vec3a(-U(4096), 0, 0), vec3a(0, U(5120), 0))
        side_walls ==
            << quad(vec3a(U(4096), 0, U(1024)), vec3a(0, -U(5120), 0), vec3a(0, 0, U(1024))),
               quad(vec3a(-U(4096), 0, U(1024)), vec3a(0, U(5120), 0), vec3a(0, 0, U(1024))) >>
    IN  << soccar_corner,
           transform(soccar_corner, FLIP_X),
           transform(soccar_corner, FLIP_Y),
           transform(soccar_corner, dot(FLIP_X, FLIP_Y)),
           translate(soccar_goal, vec3a(0, -U(5120), 0)),
           transform(translate(soccar_goal, vec3a(0, -U(5120), 0)), FLIP_Y),
           soccar_ramps_0,
           transform(soccar_ramps_0, FLIP_X),
           soccar_ramps_1,
           transform(soccar_ramps_1, FLIP_X),
           floor,
           ceiling,
           side_walls[1] >>
SoccarParts_goal_for_corner(soccar_corner, soccar_goal, soccar_ramps_0, soccar_ramps_1) ==
    LET floor == quad(Vec3A_default, vec3a(U(4096), 0, 0), vec3a(0, U(5120), 0))
        ceiling == quad(vec3a(0, 0, U(2048)), vec3a(-U(4096), 0, 0), vec3a(0, U(5120), 0))
        side_walls ==
            << quad(vec3a(U(4096), 0, U(1024)), vec3a(0, -U(5120), 0), vec3a(0, 0, U(1024))),
               quad(vec3a(-U(4096), 0, U(1024)), vec3a(0, U(5120), 0), vec3a(0, 0, U(1024))) >>
    IN  << soccar_corner,
           transform(soccar_goal, FLIP_X),
           transform(soccar_corner, FLIP_Y),
           transform(soccar_corner, dot(FLIP_X, FLIP_Y)),
           translate(soccar_goal, vec3a(0, -U(5120), 0)),
           transform(translate(soccar_goal, vec3a(0, -U(5120), 0)), FLIP_Y),
           soccar_ramps_0,
           transform(soccar_ramps_0, FLIP_X),
           soccar_ramps_1,
           transform(soccar_ramps_1, FLIP_X),
           floor,
           ceiling,
           side_walls[1],
           side_walls[2] >>

SoccarParts(soccar_corner, soccar_goal, soccar_ramps_0, soccar_ramps_1) ==
    LET floor == quad(Vec3A_default, vec3a(U(4096), 0, 0), vec3a(0, U(5120), 0))
        ceiling == quad(vec3a(0, 0, U(2048)), vec3a(-U(4096), 0, 0), vec3a(0, U(5120), 0))
        side_walls ==
            << quad(vec3a(U(4096), 0, U(1024)), vec3a(0, -U(5120), 0), vec3a(0, 0, U(1024))),
               quad(vec3a(-U(4096), 0, U(1024)), vec3a(0, U(5120), 0), vec3a(0, 0, U(1024))) >>
    IN  << soccar_corner,
           transform(soccar_corner, FLIP_X),
           transform(soccar_corner, FLIP_Y),
           transform(soccar_corner, dot(FLIP_X, FLIP_Y)),
           translate(soccar_goal, vec3a(0, -U(5120), 0)),
           transform(translate(soccar_goal, vec3a(0, -U(5120), 0)), FLIP_Y),
           soccar_ramps_0,
           transform(soccar_ramps_0, FLIP_X),
           soccar_ramps_1,
           transform(soccar_ramps_1, FLIP_X),
           floor,
           ceiling,
           side_walls[1],
           side_walls[2] >>

HoopsParts(hoops_corner, hoops_net, hoops_rim, hoops_ramps_0, hoops_ramps_1) ==
    LET scale == 900
        y_offset == 4317
        s == from_diagonal_splat(scale)
        dy == vec3a(0, y_offset, 0)
        transformed_hoops_net == translate(transform(hoops_net, s), dy)
        transformed_hoops_rim == translate(transform(hoops_rim, s), dy)
        floor == quad(Vec3A_default, vec3a(U(2966), 0, 0), vec3a(0, U(3581), 0))
        ceiling == quad(vec3a(0, 0, U(1820)), vec3a(-U(2966), 0, 0), vec3a(0, U(3581), 0))
        side_walls ==
            << quad(vec3a(U(2966), 0, U(910)), vec3a(0, -U(3581), 0), vec3a(0, 0, U(910))),
               quad(vec3a(-U(2966), 0, U(910)), vec3a(0, U(3581), 0), vec3a(0, 0, U(910))) >>
        back_walls ==
            << quad(vec3a(0, 0, U(1024)), vec3a(0, -U(5120), 0), vec3a(0, 0, U(1024))),
               quad(vec3a(0, 0, U(1024)), vec3a(0, U(5120), 0), vec3a(0, 0, U(1024))) >>
    IN  << hoops_corner,
           transform(hoops_corner, FLIP_X),
           transform(hoops_corner, FLIP_Y),
           transform(hoops_corner, dot(FLIP_X, FLIP_Y)),
           transformed_hoops_net,
           transform(transformed_hoops_net, FLIP_Y),
           transformed_hoops_rim,
           transform(transformed_hoops_rim, FLIP_Y),
           hoops_ramps_0,
           transform(hoops_ramps_0, FLIP_X),
           hoops_ramps_1,
           transform(hoops_ramps_1, FLIP_Y),
           floor,
           ceiling,
           side_walls[1],
           side_walls[2],
           back_walls[1],
           back_walls[2] >>

\* for _ in 0..n { walls.push(quad(p, x, z)); p = dot(r, p); x = dot(r, x); }
RECURSIVE DropshotWalls(_, _, _, _, _)
DropshotWalls(n, p, x, z, r) ==
    IF n = 0 THEN << >>
    ELSE << quad(p, x, z) >> \o DropshotWalls(n - 1, math_dot(r, p), math_dot(r, x), z, r)

DropshotParts(dropshot) ==
    LET scale == 393
        z_offset == -2076
        q == axis_to_rotation_z(866, 500)
        s == from_diagonal_splat(scale)
        dz == vec3a(0, 0, z_offset)
        floor == quad(vec3a(0, 0, U(2)), vec3a(U(10000), 0, 0), vec3a(0, U(7000), 0))
        ceiling == quad(vec3a(0, 0, U(2020)), vec3a(-U(10000), 0, 0), vec3a(0, U(7000), 0))
        p == vec3a(0, RDiv(116836 * scale, MDen), RDiv(27686 * scale, MDen) - z_offset)
        x == vec3a(U(5000), 0, 0)
        z == vec3a(0, 0, U(1010))
        r == axis_to_rotation_z(500, 866)
        walls == DropshotWalls(6, p, x, z, r)
    IN  << translate(transform(dropshot, dot(q, s)), dz), floor, ceiling,
           walls[1], walls[2], walls[3], walls[4], walls[5], walls[6] >>

ThrowbackParts(back_ramps_lower, back_ramps_upper, corner_ramps_lower, corner_ramps_upper, corner_wall_0, corner_wall_1, corner_wall_2, goal, side_ramps_lower, side_ramps_upper) ==
    LET scale == M(100)
        s == from_diagonal_splat(scale)
        floor == quad(Vec3A_default, vec3a(40966, 0, 0), vec3a(0, U(6910), 0))
        ceiling == quad(vec3a(0, 0, U(2048)), vec3a(-40966, 0, 0), vec3a(0, U(6910), 0))
        side_walls ==
            << quad(vec3a(40966, 0, U(1024)), vec3a(0, -U(6910), 0), vec3a(0, 0, U(1024))),
               quad(vec3a(-40966, 0, U(1024)), vec3a(0, U(6910), 0), vec3a(0, 0, U(1024))) >>
        back_walls ==
            << quad(vec3a(0, U(6910), U(1024)), vec3a(U(4096), 0, 0), vec3a(0, 0, U(1024))),
               quad(vec3a(0, -U(6910), U(1024)), vec3a(-U(4096), 0, 0), vec3a(0, 0, U(1024))) >>
        throwback_goal == transform(goal, s)
        throwback_side_ramps_lower == transform(side_ramps_lower, s)
        throwback_side_ramps_upper == transform(side_ramps_upper, s)
        throwback_back_ramps_lower == transform(back_ramps_lower, s)
        throwback_back_ramps_upper == transform(back_ramps_upper, s)
        throwback_corner_ramps_lower == transform(corner_ramps_lower, s)
        throwback_corner_ramps_upper == transform(corner_ramps_upper, s)
        throwback_corner_wall_0 == transform(corner_wall_0, s)
        throwback_corner_wall_1 == transform(corner_wall_1, s)
        throwback_corner_wall_2 == transform(corner_wall_2, s)
    IN  << throwback_corner_ramps_lower,
           transform(throwback_corner_ramps_lower, FLIP_X),
           transform(throwback_corner_ramps_lower, FLIP_Y),
           transform(transform(throwback_corner_ramps_lower, FLIP_Y), FLIP_X),
           throwback_corner_ramps_upper,
           transform(throwback_corner_ramps_upper, FLIP_X),
           transform(throwback_corner_ramps_upper, FLIP_Y),
           transform(transform(throwback_corner_ramps_upper, FLIP_Y), FLIP_X),
           throwback_goal,
           transform(throwback_goal, FLIP_Y),
           throwback_side_ramps_lower,
           transform(throwback_side_ramps_lower, FLIP_X),
           throwback_side_ramps_upper,
           transform(throwback_side_ramps_upper, FLIP_X),
           throwback_back_ramps_lower,
           transform(throwback_back_ramps_lower, FLIP_Y),
           throwback_back_ramps_upper,
           transform(throwback_back_ramps_upper, FLIP_Y),
           throwback_corner_wall_0,
           transform(throwback_corner_wall_0, FLIP_X),
           transform(throwback_corner_wall_0, FLIP_Y),
           transform(transform(throwback_corner_wall_0, FLIP_Y), FLIP_X),
           throwback_corner_wall_1,
           transform(throwback_corner_wall_1, FLIP_X),
           transform(throwback_corner_wall_1, FLIP_Y),
           transform(transform(throwback_corner_wall_1, FLIP_Y), FLIP_X),
           throwback_corner_wall_2,
           transform(throwback_corner_wall_2, FLIP_X),
           transform(throwback_corner_wall_2, FLIP_Y),
           transform(transform(throwback_corner_wall_2, FLIP_Y), FLIP_X),
           floor,
           ceiling,
           side_walls[1],
           side_walls[2],
           back_walls[1],
           back_walls[2] >>

(***************************************************************************)
(* The arena builders.  The caller owns the panel meshes and lends them to *)
(* the builder (&Mesh); the builder merges its list, expands the triangles *)
(* and builds the BVH.  Expanding an index that is out of range panics.    *)
(***************************************************************************)
PanelA == [ids |-> << 0, 1, 2 >>,
           vertices |-> Flatten(<< << 10, 20, 5 >>, << 40, 20, 5 >>, << 10, 60, 30 >> >>)]
PanelB == [ids |-> << 0, 1, 2, 2, 1, 3 >>,
           vertices |-> Flatten(<< << 10, 10, 0 >>, << 30, 10, 0 >>, << 10, 30, 20 >>,
                                   << 30, 30, 40 >> >>)]
PanelC == [ids |-> << 2, 0, 1 >>,
           vertices |-> Flatten(<< << 0, 0, 10 >>, << 20, 0, 10 >>, << 0, 20, 30 >>,
                                   << 50, 50, 50 >> >>)]
PanelD == [ids |-> << 0, 2, 1, 1, 2, 3, 0, 3, 2 >>,
           vertices |-> Flatten(<< << 20, 0, 0 >>, << 0, 30, 0 >>, << 0, 0, 40 >>,
                                   << 20, 30, 40 >> >>)]
PanelList == << PanelA, PanelB, PanelC, PanelD >>

PanelSet == {PanelList[i] : i \in 1..Min2(MaxPanel, Len(PanelList))}

\* the ten slots a caller fills; soccar reads 1..4, hoops 1..5, dropshot 1,
\* throwback all ten (in the order of InitializeThrowbackParams)
PanelSlots == 1..10

InitArena ==
    /\ \E m1 \in PanelSet, m2 \in PanelSet, k \in PanelSlots :
           panels = [i \in PanelSlots |-> IF i = k THEN m1 ELSE m2]
    /\ arena = "none"
    /\ parts = None
    /\ field_mesh = None
    /\ triangles = None
    /\ bvh = None
    /\ MatIdle /\ QuadIdle /\ BallIdle

\* let field_mesh = Mesh::from(vec![...]);
\* let triangles = field_mesh.to_triangles(); Bvh::from(&triangles)
Build(name, list) ==
    /\ parts' = list
    /\ field_mesh' = Mesh_from(list)
    /\ IF MeshValid(field_mesh')
       THEN /\ triangles' = to_triangles(field_mesh')
            /\ bvh' = Bvh_from(triangles')
            /\ arena' = name
       ELSE /\ triangles' = None
            /\ bvh' = None
            /\ arena' = "panic"
    /\ UNCHANGED panels
    /\ UNCHANGED << matVars, quadVars, ballVars >>

initialize_soccar ==
    Build("soccar", SoccarParts(panels[1], panels[2], panels[3], panels[4]))

initialize_hoops ==
    Build("hoops", HoopsParts(panels[1], panels[2], panels[3], panels[4], panels[5]))

initialize_dropshot ==
    Build("dropshot", DropshotParts(panels[1]))

initialize_throwback ==
    Build("throwback", ThrowbackParts(panels[1], panels[2], panels[3], panels[4], panels[5],
                                      panels[6], panels[7], panels[8], panels[9], panels[10]))

NextArena ==
    \/ initialize_soccar
    \/ initialize_hoops
    \/ initialize_dropshot
    \/ initialize_throwback

SpecArena == InitArena /\ [][NextArena]_vars

Built == {"soccar", "hoops", "dropshot", "throwback"}

TriCount(mesh) == Len(mesh.ids) \div 3

RECURSIVE ConcatTriangles(_)
ConcatTriangles(meshes) ==
    IF meshes = << >> THEN << >>
    ELSE ConcatTriangles(SubSeq(meshes, 1, Len(meshes) - 1))
             \o to_triangles(meshes[Len(meshes)])

RECURSIVE ConcatVertices(_)
ConcatVertices(meshes) ==
    IF meshes = << >> THEN << >>
    ELSE ConcatVertices(SubSeq(meshes, 1, Len(meshes) - 1)) \o meshes[Len(meshes)].vertices

\* the number of vertices, and of indices, of the meshes before the i-th
RECURSIVE VertsBefore(_, _)
VertsBefore(meshes, i) ==
    IF i = 1 THEN 0 ELSE VertsBefore(meshes, i - 1) + VertCount(meshes[i - 1])

RECURSIVE IdsBefore(_, _)
IdsBefore(meshes, i) ==
    IF i = 1 THEN 0 ELSE IdsBefore(meshes, i - 1) + Len(meshes[i - 1].ids)

\* C3: the triangles of the merged mesh are those of the inputs, in input
\* order, with the coordinates unchanged and each input's indices shifted by
\* the number of vertices before it; soccar has 4*T(corner) + 2*T(goal) +
\* 2*T(ramps_0) + 2*T(ramps_1) + 8 triangles.
C3_MergeKeepsTrianglesInOrder ==
    arena \in Built =>
        /\ triangles = ConcatTriangles(parts)
        /\ field_mesh.vertices = ConcatVertices(parts)
        /\ \A i \in 1..Len(parts) : \A k \in 1..Len(parts[i].ids) :
               field_mesh.ids[IdsBefore(parts, i) + k] = parts[i].ids[k] + VertsBefore(parts, i)
        /\ arena = "soccar" =>
               Len(triangles) = 4 * TriCount(panels[1]) + 2 * TriCount(panels[2])
                                    + 2 * TriCount(panels[3]) + 2 * TriCount(panels[4]) + 8

C3_Witness ==
    /\ arena = "soccar"
    /\ TriCount(panels[1]) = 2
    /\ TriCount(panels[2]) = 1
    /\ Len(triangles) = 22
    /\ triangles[22] = to_triangles(parts[14])[2]

\* C4: with valid panels, every mesh an arena builder makes and the merged
\* mesh keep every index below the number of vertices, so expanding the
\* triangles never meets an index out of range.
C4_IndicesStayInRange ==
    (\A i \in PanelSlots : MeshValid(panels[i])) =>
        /\ arena # "panic"
        /\ arena \in Built =>
               /\ MeshValid(field_mesh)
               /\ \A i \in 1..Len(parts) : MeshValid(parts[i])
               /\ Len(triangles) = TriCount(field_mesh)

C4_Witness ==
    /\ arena = "throwback"
    /\ Len(parts) = 36
    /\ field_mesh.ids[Len(field_mesh.ids)] = VertCount(field_mesh) - 1

\* for each mesh of a builder's list, the slot of the panel it is a copy of
\* (0 for a generated quad)
SourceOf(name) ==
    CASE name = "soccar" -> << 1, 1, 1, 1, 2, 2, 3, 3, 4, 4, 0, 0, 0, 0 >>
      [] name = "hoops" -> << 1, 1, 1, 1, 2, 2, 3, 3, 4, 4, 5, 5, 0, 0, 0, 0, 0, 0 >>
      [] name = "dropshot" -> << 1, 0, 0, 0, 0, 0, 0, 0, 0 >>
      [] name = "throwback" -> << 3, 3, 3, 3, 4, 4, 4, 4, 8, 8, 9, 9, 10, 10, 1, 1, 2, 2,
                                  5, 5, 5, 5, 6, 6, 6, 6, 7, 7, 7, 7, 0, 0, 0, 0, 0, 0 >>

CopiesKeepTopology ==
    /\ Len(parts) = Len(SourceOf(arena))
    /\ \A i \in 1..Len(parts) :
           SourceOf(arena)[i] # 0 =>
               /\ parts[i].ids = panels[SourceOf(arena)[i]].ids
               /\ Len(parts[i].vertices) = Len(panels[SourceOf(arena)[i]].vertices)

RECURSIVE NodeSound(_)
NodeSound(node) ==
    IF node.leaf THEN node.box = BoxOfTri(node.tri)
    ELSE /\ BoxContains(node.box, node.left.box)
         /\ BoxContains(node.box, node.right.box)
         /\ NodeSound(node.left)
         /\ NodeSound(node.right)

RECURSIVE LeafCount(_)
LeafCount(node) == IF node.leaf THEN 1 ELSE LeafCount(node.left) + LeafCount(node.right)

\* C7: in the BVH of an arena every internal node's box contains the boxes
\* of both children, and the root's box contains every triangle of the
\* merged mesh: every vertex a triangle of a panel or of a quad refers to.
C7_BvhBoxesEnclose ==
    arena \in Built =>
        /\ NodeSound(bvh)
        /\ LeafCount(bvh) = Len(triangles)
        /\ \A k \in 1..Len(triangles) : \A c \in 1..3 :
               BoxContainsPoint(bvh.box, triangles[k][c])
        /\ \A i \in 1..Len(parts) : \A k \in 1..Len(parts[i].ids) :
               BoxContainsPoint(bvh.box, vertex(parts[i], parts[i].ids[k]))

\* some internal node is strictly larger than one of its children
RECURSIVE SomeChildSmaller(_)
SomeChildSmaller(node) ==
    /\ ~node.leaf
    /\ \/ node.left.box # node.box
       \/ node.right.box # node.box
       \/ SomeChildSmaller(node.left)
       \/ SomeChildSmaller(node.right)

C7_Witness ==
    /\ arena = "hoops"
    /\ ~bvh.leaf
    /\ ~bvh.left.leaf
    /\ SomeChildSmaller(bvh)
    /\ bvh.box.max[3] = U(2048)
    /\ LeafCount(bvh) = Len(triangles)

\* a matrix of whole entries applied to a vector of any unit
WholeApply(matrix, v) ==
    << (matrix[1][1] \div MDen) * v[1] + (matrix[1][2] \div MDen) * v[2]
           + (matrix[1][3] \div MDen) * v[3],
       (matrix[2][1] \div MDen) * v[1] + (matrix[2][2] \div MDen) * v[2]
           + (matrix[2][3] \div MDen) * v[3],
       (matrix[3][1] \div MDen) * v[1] + (matrix[3][2] \div MDen) * v[2]
           + (matrix[3][3] \div MDen) * v[3] >>

\* the mirrored copies of a builder's list: << copy, original, flip >>
MirrorsOf(name) ==
    CASE name = "soccar" ->
             { << 2, 1, FLIP_X >>, << 3, 1, FLIP_Y >>, << 4, 1, dot(FLIP_X, FLIP_Y) >>,
               << 6, 5, FLIP_Y >>, << 8, 7, FLIP_X >>, << 10, 9, FLIP_X >> }
      [] name = "hoops" ->
             { << 2, 1, FLIP_X >>, << 3, 1, FLIP_Y >>, << 4, 1, dot(FLIP_X, FLIP_Y) >>,
               << 6, 5, FLIP_Y >>, << 8, 7, FLIP_Y >>, << 10, 9, FLIP_X >>,
               << 12, 11, FLIP_Y >> }
      [] name = "dropshot" -> { }
      [] name = "throwback" ->
             UNION { { << b + 1, b, FLIP_X >>, << b + 2, b, FLIP_Y >>,
                       << b + 3, b, dot(FLIP_X, FLIP_Y) >> } : b \in {1, 5, 19, 23, 27} }
                 \cup { << 10, 9, FLIP_Y >>, << 12, 11, FLIP_X >>, << 14, 13, FLIP_X >>,
                        << 16, 15, FLIP_Y >>, << 18, 17, FLIP_Y >> }

MirrorKeepsFacing(m) ==
    \A t \in 1..TriCount(parts[m[2]]) :
        WindingNormal(to_triangles(parts[m[1]])[t])
            = WholeApply(m[3], WindingNormal(to_triangles(parts[m[2]])[t]))

C9_DoubleFlipsKeepFacing ==
    arena \in Built =>
        \A m \in MirrorsOf(arena) : m[3] = dot(FLIP_X, FLIP_Y) => MirrorKeepsFacing(m)

RECURSIVE Gcd(_, _)
Gcd(a, b) == IF b = 0 THEN a ELSE Gcd(b, a % b)

Abs(a) == IF a >= 0 THEN a ELSE -a

\* the shortest whole vector in the direction of v
Dir(v) ==
    LET g == Gcd(Abs(v[1]), Gcd(Abs(v[2]), Abs(v[3])))
    IN  IF g = 0 THEN v ELSE << v[1] \div g, v[2] \div g, v[3] \div g >>

\* a . b > 0, with b split in thousands so that no product leaves the range
PosDot(a, b) ==
    LET hi == a[1] * (b[1] \div 1000) + a[2] * (b[2] \div 1000) + a[3] * (b[3] \div 1000)
        lo == a[1] * (b[1] % 1000) + a[2] * (b[2] % 1000) + a[3] * (b[3] % 1000)
    IN  \/ hi + (lo \div 1000) > 0
        \/ hi + (lo \div 1000) = 0 /\ lo % 1000 > 0

\* the arena centre: (0, 0, half the ceiling height)
CentreOf(name) ==
    CASE name = "soccar" -> << 0, 0, U(1024) >>
      [] name = "hoops" -> << 0, 0, U(910) >>
      [] name = "dropshot" -> << 0, 0, U(1010) >>
      [] name = "throwback" -> << 0, 0, U(1024) >>

\* for the quad mesh of centre p and half-edges e1, e2: (e1 x e2) . (c - p) > 0,
\* read off its corners: 2 p = v0 + v2, 2 e1 = v0 - v1, 2 e2 = v1 - v2
QuadFacesCentre(mesh, c) ==
    LET v == Points(mesh)
        n == VCross(Dir(VSub(v[1], v[2])), Dir(VSub(v[2], v[3])))
    IN  PosDot(n, VSub(VScale(2, c), VAdd(v[1], v[3])))

\* C10: every generated quad of every arena faces the arena centre:
\* (e1 x e2) . (c - p) > 0.
C10_QuadsFaceThePlayingVolume ==
    arena \in Built =>
        \A i \in 1..Len(parts) :
            SourceOf(arena)[i] = 0 => QuadFacesCentre(parts[i], CentreOf(arena))

\* every generated quad but the two back walls of hoops does
C10_QuadsButHoopsBackWallsFace ==
    arena \in Built =>
        \A i \in 1..Len(parts) :
            (SourceOf(arena)[i] = 0 /\ ~(arena = "hoops" /\ i \in {17, 18}))
                => QuadFacesCentre(parts[i], CentreOf(arena))

(***************************************************************************)
(* simulation/ball.rs as benches/benchmarks.rs drives it: a game holds the *)
(* ball; a prediction steps an owned copy of the ball and returns one      *)
(* slice per step.  Lengths are whole units, one step is a tenth of a      *)
(* second, and the arena is reduced to its floor at z = 0.                 *)
(***************************************************************************)
BallRadius == 93
Gravity == 65
Restitution == 6

\* Ball::step: gravity and drag on the velocity, the position from the new
\* velocity, a bounce off the floor with the ball pushed out of it, and the
\* timestamp advanced
step(b) ==
    LET v == << b.velocity[1] - RDiv(3 * b.velocity[1], 100),
                b.velocity[2] - RDiv(3 * b.velocity[2], 100),
                b.velocity[3] - RDiv(3 * b.velocity[3], 100) - Gravity >>
        loc == << b.location[1] + RDiv(v[1], 10), b.location[2] + RDiv(v[2], 10),
                  b.location[3] + RDiv(v[3], 10) >>
    IN  IF loc[3] < BallRadius
        THEN [location |-> << loc[1], loc[2], BallRadius >>,
              velocity |-> << RDiv(9 * v[1], 10), RDiv(9 * v[2], 10),
                              -RDiv(Restitution * v[3], 10) >>,
              angular_velocity |-> << -RDiv(v[2], BallRadius), RDiv(v[1], BallRadius), 0 >>,
              time |-> b.time + 1]
        ELSE [location |-> loc, velocity |-> v,
              angular_velocity |-> b.angular_velocity, time |-> b.time + 1]

BallSet ==
    { [location |-> << 0, 0, BallRadius >>, velocity |-> << 0, 0, 0 >>,
       angular_velocity |-> << 0, 0, 0 >>, time |-> 0],
      [location |-> << 0, 0, 300 >>, velocity |-> << 200, -100, -900 >>,
       angular_velocity |-> << 1, 0, 2 >>, time |-> 0],
      [location |-> << 100, -200, 150 >>, velocity |-> << 0, 500, 300 >>,
       angular_velocity |-> << 0, 3, 0 >>, time |-> 5] }

InitBall ==
    /\ game \in {[ball |-> b] : b \in BallSet}
    /\ ball = None
    /\ num_slices = 0
    /\ slices = None
    /\ last = None
    /\ pc = "ready"
    /\ MatIdle /\ QuadIdle /\ ArenaIdle

\* init_benchmark: game.ball.location.z = 1900.
SetHeight ==
    /\ pc = "ready"
    /\ game' = [game EXCEPT !.ball.location[3] = 1900]
    /\ UNCHANGED << ball, num_slices, slices, last, pc >>
    /\ UNCHANGED << matVars, quadVars, arenaVars >>

\* Ball::get_ball_prediction_struct_for_time(&mut game, &time): the number
\* of slices is fixed by the time and the ball is copied out of the game
get_ball_prediction_struct_for_time ==
    /\ pc = "ready"
    /\ \E n \in 1..MaxSlices : num_slices' = n
    /\ ball' = game.ball
    /\ slices' = << >>
    /\ pc' = "stepping"
    /\ UNCHANGED << game, last >>
    /\ UNCHANGED << matVars, quadVars, arenaVars >>

\* the loop body stepping the game's own ball
PredictStep_in_place ==
    /\ pc = "stepping"
    /\ Len(slices) < num_slices
    /\ ball' = step(ball)
    /\ game' = [game EXCEPT !.ball = step(ball)]
    /\ slices' = Append(slices, step(ball))
    /\ UNCHANGED << num_slices, last, pc >>
    /\ UNCHANGED << matVars, quadVars, arenaVars >>

\* one iteration of the prediction loop: step the copy and record it
PredictStep ==
    /\ pc = "stepping"
    /\ Len(slices) < num_slices
    /\ ball' = step(ball)
    /\ slices' = Append(slices, step(ball))
    /\ UNCHANGED << game, num_slices, last, pc >>
    /\ UNCHANGED << matVars, quadVars, arenaVars >>

\* the prediction is returned to the caller
PredictReturn ==
    /\ pc = "stepping"
    /\ Len(slices) = num_slices
    /\ last' = [from |-> game.ball, slices |-> slices]
    /\ pc' = "ready"
    /\ UNCHANGED << game, ball, num_slices, slices >>
    /\ UNCHANGED << matVars, quadVars, arenaVars >>

NextBall ==
    \/ SetHeight
    \/ get_ball_prediction_struct_for_time
    \/ PredictStep
    \/ PredictReturn

SpecBall == InitBall /\ [][NextBall]_vars

====
